---- MODULE Spec2Model ----
(***************************************************************************)
(* Doc-viewer: the viewer controller (DocViewer), its undo/redo history    *)
(* (HistoryManager) and the comment/annotation store, as a state machine;  *)
(* a page controller (DocPage) with its layer, its pointer handlers and    *)
(* its life cycle; and the storage keys of two viewers of one origin.      *)
(*                                                                         *)
(* Conventions.                                                            *)
(*   - A JS value that may be null is a sequence: <<>> is null, <<v>> is   *)
(*     the value v.                                                        *)
(*   - A Record<number, T[]> is a function whose DOMAIN is the set of page *)
(*     keys present; an absent key differs from a key holding <<>>.        *)
(*   - Normalized coordinates are fractions in thousandths (500 is 0.5).   *)
(*   - theme, mode and activeTool are presentation state that no viewer    *)
(*     handler reads; they are left out of the viewer's state.             *)
(***************************************************************************)
EXTENDS Integers, Sequences, FiniteSets, TLC

\* ------------------------------------------------------------------ bounds
\* Most entries the undo stack may hold (pushState is not taken beyond it).
MaxHist == 2
\* Largest page count the document loader may report for a pdf.
MaxPages == 1
\* Most provisional rectangles counted as left behind in a layer.
MaxStrays == 2
\* Most renders of one page counted.
MaxRenders == 2
\* Most characters of a source locator.
MaxSrcLen == 2

\* ------------------------------------------------------------------ values
Null == <<>>
Some(v) == <<v>>
\* JS truthiness of a nullable page number (0 is falsy too) and of a nullable
\* id (no id of the model is the empty string).
TruthyPage(opt) == opt # Null /\ opt[1] # 0
TruthyId(opt) == opt # Null

TAG_OPTIONS == {"None", "Important", "Todo", "Question", "Idea"}
AnnotationKind == {"comment", "note"}

\* Inputs: rectangles a page emits, click positions, typed text, chosen tag.
Rects == { [x |-> 10, y |-> 40, width |-> 100, height |-> 100] }
ClickXs == {250}
ClickYs == {750}
Texts == {"fix this"}
TagInputs == {"None"}
\* The kind a click asks for (the page's active tool).
ClickKinds == {"comment"}
FileTypes == {"pdf", "image", "text"}

EmptyMap == [p \in {} |-> <<>>]
\* obj[key] || []
Get(map, key) == IF key \in DOMAIN map THEN map[key] ELSE <<>>
\* { [key]: val }, the spread of obj left out.
PutAlone(map, key, val) == [k \in {key} |-> val]
\* { ...obj, [key]: val }
Put(map, key, val) == [k \in (DOMAIN map) \cup {key} |-> IF k = key THEN val ELSE map[k]]

Last(s) == s[Len(s)]
Front(s) == SubSeq(s, 1, Len(s) - 1)

\* ---------------------------------------------------------------- variables
VARIABLES
  phase,              \* componentDidLoad: "constructed", "awaiting" (pdf), "ready"
  numPages,
  annotations,
  comments,
  sidebarOpen,
  sidebarPage,
  sidebarSelectedId,
  sidebarDraftText,
  sidebarDraftTag,
  history,            \* the HistoryManager: [past, future]
  storage,            \* localStorage under the document's two keys
  uuidAvail,          \* crypto.randomUUID exists
  threw,              \* an exception left the last handler
  watch,              \* observer: what is recorded: "ops", "calls", "runs", "heap", "page"
  lastOp,             \* observer: the last handler run and its outcome
  preUndo,            \* observer: annotations/comments before the undo just done (else null)
  opPre,              \* observer: pre-states of the current run of pushing operations
  undone,             \* observer: undos done since that run
  mgrVersion,         \* which HistoryManager class: "workspace" or "utils"
  heap,               \* the objects a HistoryManager and its caller hold
  undoStack,          \* the manager's undo stack (past), as references
  redoStack,          \* the manager's redo stack (future), as references
  live,               \* the caller's state object, as a reference
  snap,               \* the snapshot the caller was last handed (or null)
  lastCall,           \* observer: the last step on the manager or by its caller
  docPage,            \* a doc-page component: props, fields and its layer
  emitted,            \* observer: the events the page's last handler emitted
  strays,             \* provisional rectangles in the layer that currentRectEl no longer is
  visible,            \* the page's visible prop
  didLoad,            \* the page's componentDidLoad has run
  renders,            \* observer: the renders of the page's content started
  pending,            \* the renders started and still awaited
  skipped,            \* observer: a call of ensureRendered returned at "already rendered"
  srcs,               \* the src prop of each of two viewers of one origin
  localStorage,       \* the origin's localStorage: key -> the viewer that wrote the item
  loadedFrom          \* per viewer: the writer of the item its load read (or null)

viewerVars == <<phase, numPages, annotations, comments, sidebarOpen, sidebarPage,
                sidebarSelectedId, sidebarDraftText, sidebarDraftTag, history,
                storage, uuidAvail, threw>>
observerVars == <<watch, lastOp, preUndo, opPre, undone>>
heapVars == <<mgrVersion, heap, undoStack, redoStack, live, snap, lastCall>>
pageVars == <<docPage, emitted>>
renderVars == <<visible, didLoad, renders, pending, skipped>>
keyVars == <<srcs, localStorage, loadedFrom>>
vars == <<viewerVars, observerVars, heapVars, pageVars, strays, renderVars, keyVars>>

\* The canonical state handed to the history: { annotations, comments }.
Canon == [annotations |-> annotations, comments |-> comments]

\* ------------------------------------------------------------------- JSON
\* JSON.stringify / JSON.parse on the values the viewer holds: page keys,
\* finite numbers and strings survive unchanged; the text is a wrapper so
\* that a text is never mistaken for a value.
JSONstringify(v) == [json |-> v]
JSONparse(t) == t.json

\* ------------------------------------------------------------ HistoryManager
\* utils/history.ts, the class DocViewer imports.
clone(state) == JSONparse(JSONstringify(state))

NewHistory == [past |-> <<>>, future |-> <<>>]

\* pushState without "this.future = []".
pushStateKeepsFuture(h, state) ==
  [past |-> Append(h.past, clone(state)), future |-> h.future]

pushState(h, state) ==
  [past |-> Append(h.past, clone(state)), future |-> <<>>]

\* undo reading the top of the stack without popping it.
HistoryUndoPeeks(h, current) ==
  IF Len(h.past) = 0
  THEN [ret |-> Null, h |-> h]
  ELSE [ret |-> Some(Last(h.past)),
        h |-> [past |-> h.past, future |-> Append(h.future, clone(current))]]

\* undo / redo return [ret, h]: the returned snapshot (or null) and the manager after.
HistoryUndo(h, current) ==
  IF Len(h.past) = 0
  THEN [ret |-> Null, h |-> h]
  ELSE [ret |-> Some(Last(h.past)),
        h |-> [past |-> Front(h.past), future |-> Append(h.future, clone(current))]]

HistoryRedo(h, current) ==
  IF Len(h.future) = 0
  THEN [ret |-> Null, h |-> h]
  ELSE [ret |-> Some(Last(h.future)),
        h |-> [past |-> Append(h.past, clone(current)), future |-> Front(h.future)]]

\* --------------------------------------------------------------- storage keys
\* A source locator is a sequence of characters; these are the characters
\* of the model, letters and digits and three others.
Letters == {"a", "d", "e", "f", "l", "t", "u"}
Digits == {"1"}
Chars == {"a", "1", "/", "_"}
Sources == UNION {[1..n -> Chars] : n \in 0..MaxSrcLen}
\* 'default'
Default == <<"d", "e", "f", "a", "u", "l", "t">>

\* storageKey(kind): `dv_${kind}_${safe}`, src the viewer's src prop; safe
\* is (src || 'default').replace(/[^a-z0-9]/gi, '_').
storageKey(kind, src) ==
  LET base == IF src = <<>> THEN Default ELSE src
      safe == [i \in 1..Len(base) |-> IF base[i] \in Letters \cup Digits THEN base[i] ELSE "_"]
  IN <<"dv_", kind, "_">> \o safe

\* ------------------------------------------------------------------ storage
NoItem == Null
EmptyStorage == [annotations |-> NoItem, comments |-> NoItem]

\* persist() without the second setItem.
persistAnnotationsOnly(state) ==
  [annotations |-> Some(JSONstringify(state.annotations)), comments |-> NoItem]

\* persist(): both keys are written from the given canonical state.
persist(state) ==
  [annotations |-> Some(JSONstringify(state.annotations)),
   comments |-> Some(JSONstringify(state.comments))]

\* pushHistory(): the history after pushing the given canonical state.
pushHistory(h, state) == pushState(h, state)

\* --------------------------------------------------------- the viewer record
\* The viewer's fields as one record, so that a handler is a function from
\* the viewer before to the viewer after, its statements applied in order.
\* threw: an exception left the handler.
V == [phase |-> phase, numPages |-> numPages,
      annotations |-> annotations, comments |-> comments,
      sidebarOpen |-> sidebarOpen, sidebarPage |-> sidebarPage,
      sidebarSelectedId |-> sidebarSelectedId,
      sidebarDraftText |-> sidebarDraftText, sidebarDraftTag |-> sidebarDraftTag,
      history |-> history, storage |-> storage, threw |-> FALSE]

CanonOf(v) == [annotations |-> v.annotations, comments |-> v.comments]

\* this.history.pushState({ annotations, comments })
doPushHistory(v) == [v EXCEPT !.history = pushHistory(v.history, CanonOf(v))]
\* this.persist()
doPersist(v) == [v EXCEPT !.storage = persist(CanonOf(v))]

\* ------------------------------------------------------------------- ids
IdsOfList(list) == {list[i].id : i \in 1..Len(list)}
IdsOfMap(cm) == UNION {IdsOfList(cm[p]) : p \in DOMAIN cm}
IdsOfSnaps(snaps) == UNION {IdsOfMap(snaps[i].comments) : i \in 1..Len(snaps)}
IdsOfItem(item) == IF item = NoItem THEN {} ELSE IdsOfMap(JSONparse(item[1]))
IdsInUse ==
  IdsOfMap(comments) \cup IdsOfSnaps(history.past) \cup IdsOfSnaps(history.future)
    \cup IdsOfItem(storage.comments) \cup {sidebarSelectedId[i] : i \in 1..Len(sidebarSelectedId)}
    \cup IdsOfSnaps(preUndo) \cup IdsOfSnaps(opPre)

\* The least number that names no id and no clock reading of this session yet.
TimesOfList(list) == {list[i].createdAt : i \in 1..Len(list)}
TimesOfMap(cm) == UNION {TimesOfList(cm[p]) : p \in DOMAIN cm}
TimesOfSnaps(snaps) == UNION {TimesOfMap(snaps[i].comments) : i \in 1..Len(snaps)}
TimesInUse ==
  TimesOfMap(comments) \cup TimesOfSnaps(history.past) \cup TimesOfSnaps(history.future)
    \cup TimesOfSnaps(preUndo) \cup TimesOfSnaps(opPre)
    \cup (IF storage.comments = NoItem THEN {} ELSE TimesOfMap(JSONparse(storage.comments[1])))
FreshNumber ==
  LET used == {id.n : id \in {i \in IdsInUse : i.src \in {"uuid", "time"}}}
                \cup {t.ms : t \in {r \in TimesInUse : r.session = "this"}}
  IN CHOOSE n \in 1..(Cardinality(used) + 1) : n \notin used

\* crypto.randomUUID(): an id no record anywhere carries.
randomUUID == [src |-> "uuid", n |-> FreshNumber]
\* Date.now().toString(36): a function of the clock reading alone.
dateNowId(t) == [src |-> "time", n |-> t.ms]

\* new Date() / Date.now(): each reading in a run is later than the ones
\* before it (two handlers never run in the same millisecond). Only equality
\* of readings is observable, so a reading is named by the least free number.
clockReading == [session |-> "this", ms |-> FreshNumber]

\* crypto.randomUUID ? crypto.randomUUID() : Date.now().toString(36)
newId(t) == IF uuidAvail THEN randomUUID ELSE dateNowId(t)

\* --------------------------------------------------------------- handlers
\* list.findIndex(c => c.id === id): 0 stands for -1.
findIndex(list, id) ==
  IF \E i \in 1..Len(list) : list[i].id = id
  THEN CHOOSE i \in 1..Len(list) : list[i].id = id /\ \A j \in 1..(i - 1) : list[j].id # id
  ELSE 0

\* getComment(page, id): the first record of comments[page] with that id, or null.
getComment(cm, page, id) ==
  LET list == Get(cm, page)
      idx == findIndex(list, id)
  IN IF idx = 0 THEN Null ELSE Some(list[idx])

\* list.filter(c => c.id !== id)
RECURSIVE filterOut(_, _)
filterOut(list, id) ==
  IF list = <<>> THEN <<>>
  ELSE IF list[1].id # id THEN <<list[1]>> \o filterOut(Tail(list), id)
       ELSE filterOut(Tail(list), id)

\* undo without "if (!state) return": state.annotations of null throws.
ViewerUndoNoGuard(v) ==
  LET r == HistoryUndo(v.history, CanonOf(v))
      v1 == [v EXCEPT !.history = r.h]
  IN IF r.ret = Null THEN [v1 EXCEPT !.threw = TRUE]
     ELSE doPersist([v1 EXCEPT !.annotations = r.ret[1].annotations,
                               !.comments = r.ret[1].comments])

\* undo
ViewerUndo(v) ==
  LET r == HistoryUndo(v.history, CanonOf(v))
      v1 == [v EXCEPT !.history = r.h]
  IN IF r.ret = Null THEN v1
     ELSE doPersist([v1 EXCEPT !.annotations = r.ret[1].annotations,
                               !.comments = r.ret[1].comments])

\* redo without "this.comments = state.comments".
ViewerRedoAnnotationsOnly(v) ==
  LET r == HistoryRedo(v.history, CanonOf(v))
      v1 == [v EXCEPT !.history = r.h]
  IN IF r.ret = Null THEN v1
     ELSE doPersist([v1 EXCEPT !.annotations = r.ret[1].annotations])

\* redo
ViewerRedo(v) ==
  LET r == HistoryRedo(v.history, CanonOf(v))
      v1 == [v EXCEPT !.history = r.h]
  IN IF r.ret = Null THEN v1
     ELSE doPersist([v1 EXCEPT !.annotations = r.ret[1].annotations,
                               !.comments = r.ret[1].comments])

\* handleAnnotationCreated that skips a rectangle the page already holds.
AnnotationCreatedDedups(v, page, rect) ==
  LET v1 == doPushHistory(v)
      old == Get(v1.annotations, page)
      list == IF \E i \in 1..Len(old) : old[i] = rect THEN old ELSE Append(old, rect)
      v2 == [v1 EXCEPT !.annotations = Put(v1.annotations, page, list)]
  IN doPersist(v2)

\* handleAnnotationCreated with pushHistory() moved below the assignment.
AnnotationCreatedPushesLate(v, page, rect) ==
  LET list == Append(Get(v.annotations, page), rect)
      v1 == [v EXCEPT !.annotations = Put(v.annotations, page, list)]
  IN doPersist(doPushHistory(v1))

\* handleAnnotationCreated({ page, rect })
AnnotationCreated(v, page, rect) ==
  LET v1 == doPushHistory(v)
      list == Append(Get(v1.annotations, page), rect)
      v2 == [v1 EXCEPT !.annotations = Put(v1.annotations, page, list)]
  IN doPersist(v2)

\* handleCommentAddRequested with list.unshift in place of list.push.
CommentAddRequestedUnshifts(v, page, x, y, kind, id, t) ==
  LET v1 == doPushHistory(v)
      rec == [id |-> id, kind |-> kind, x |-> x, y |-> y,
              text |-> "", tag |-> "None", createdAt |-> t]
      list == <<rec>> \o Get(v1.comments, page)
      v2 == doPersist([v1 EXCEPT !.comments = Put(v1.comments, page, list)])
  IN [v2 EXCEPT !.sidebarOpen = TRUE, !.sidebarPage = Some(page),
                !.sidebarSelectedId = Some(id),
                !.sidebarDraftText = "", !.sidebarDraftTag = "None"]

\* handleCommentAddRequested({ page, x, y, kind }), the id and the clock reading drawn.
CommentAddRequested(v, page, x, y, kind, id, t) ==
  LET v1 == doPushHistory(v)
      rec == [id |-> id, kind |-> kind, x |-> x, y |-> y,
              text |-> "", tag |-> "None", createdAt |-> t]
      list == Append(Get(v1.comments, page), rec)
      v2 == doPersist([v1 EXCEPT !.comments = Put(v1.comments, page, list)])
  IN [v2 EXCEPT !.sidebarOpen = TRUE, !.sidebarPage = Some(page),
                !.sidebarSelectedId = Some(id),
                !.sidebarDraftText = "", !.sidebarDraftTag = "None"]

\* handleCommentIconClicked({ page, commentId })
CommentIconClicked(v, page, commentId) ==
  LET v1 == [v EXCEPT !.sidebarOpen = TRUE, !.sidebarPage = Some(page),
                      !.sidebarSelectedId = Some(commentId)]
      c == getComment(v1.comments, page, commentId)
  IN IF c # Null
     THEN [v1 EXCEPT !.sidebarDraftText = c[1].text, !.sidebarDraftTag = c[1].tag]
     ELSE v1

\* selectSidebarComment without the copy of the record into the drafts.
SelectSidebarCommentKeepsDraft(v, id) == [v EXCEPT !.sidebarSelectedId = Some(id)]

\* selectSidebarComment(id)
SelectSidebarComment(v, id) ==
  LET v1 == [v EXCEPT !.sidebarSelectedId = Some(id)]
      c == IF TruthyPage(v1.sidebarPage) THEN getComment(v1.comments, v1.sidebarPage[1], id) ELSE Null
  IN IF c # Null
     THEN [v1 EXCEPT !.sidebarDraftText = c[1].text, !.sidebarDraftTag = c[1].tag]
     ELSE v1

\* saveSidebarAnnotation without the "|| []": spreading undefined throws.
SaveSidebarAnnotationNoFallback(v) ==
  IF ~TruthyPage(v.sidebarPage) \/ ~TruthyId(v.sidebarSelectedId) THEN v
  ELSE
    LET v1 == doPushHistory(v)
        page == v1.sidebarPage[1]
    IN IF page \notin DOMAIN v1.comments THEN [v1 EXCEPT !.threw = TRUE]
       ELSE
         LET list == v1.comments[page]
             idx == findIndex(list, v1.sidebarSelectedId[1])
         IN IF idx = 0 THEN v1
            ELSE
              LET list2 == [list EXCEPT ![idx] = [list[idx] EXCEPT !.text = v1.sidebarDraftText,
                                                                   !.tag = v1.sidebarDraftTag]]
              IN doPersist([v1 EXCEPT !.comments = Put(v1.comments, page, list2)])

\* saveSidebarAnnotation
SaveSidebarAnnotation(v) ==
  IF ~TruthyPage(v.sidebarPage) \/ ~TruthyId(v.sidebarSelectedId) THEN v
  ELSE
    LET v1 == doPushHistory(v)
        page == v1.sidebarPage[1]
        list == Get(v1.comments, page)
        idx == findIndex(list, v1.sidebarSelectedId[1])
    IN IF idx = 0 THEN v1
       ELSE
         LET list2 == [list EXCEPT ![idx] = [list[idx] EXCEPT !.text = v1.sidebarDraftText,
                                                              !.tag = v1.sidebarDraftTag]]
         IN doPersist([v1 EXCEPT !.comments = Put(v1.comments, page, list2)])

\* mockAITag(text) on the texts of this model: "" has no words; "fix this"
\* includes "fix"; "imported" includes none of the words looked for.
mockAITag(text) ==
  CASE text = "" -> "None"
    [] text = "fix this" -> "Todo"
    [] OTHER -> "Idea"

\* The Auto-Tag button: the draft tag is set from the draft text, then saved.
AutoTagClicked(v) ==
  SaveSidebarAnnotation([v EXCEPT !.sidebarDraftTag = mockAITag(v.sidebarDraftText)])

\* deleteSidebarAnnotation without "this.sidebarSelectedId = null".
DeleteSidebarAnnotationKeepsFocus(v) ==
  IF ~TruthyPage(v.sidebarPage) \/ ~TruthyId(v.sidebarSelectedId) THEN v
  ELSE
    LET v1 == doPushHistory(v)
        page == v1.sidebarPage[1]
        updated == filterOut(Get(v1.comments, page), v1.sidebarSelectedId[1])
        v2 == doPersist([v1 EXCEPT !.comments = Put(v1.comments, page, updated)])
    IN [v2 EXCEPT !.sidebarDraftText = "", !.sidebarDraftTag = "None"]

\* deleteSidebarAnnotation
DeleteSidebarAnnotation(v) ==
  IF ~TruthyPage(v.sidebarPage) \/ ~TruthyId(v.sidebarSelectedId) THEN v
  ELSE
    LET v1 == doPushHistory(v)
        page == v1.sidebarPage[1]
        updated == filterOut(Get(v1.comments, page), v1.sidebarSelectedId[1])
        v2 == doPersist([v1 EXCEPT !.comments = Put(v1.comments, page, updated)])
    IN [v2 EXCEPT !.sidebarSelectedId = Null,
                  !.sidebarDraftText = "", !.sidebarDraftTag = "None"]

\* closeSidebar without "this.sidebarOpen = false".
CloseSidebarLeavesOpen(v) ==
  [v EXCEPT !.sidebarPage = Null, !.sidebarSelectedId = Null,
            !.sidebarDraftText = "", !.sidebarDraftTag = "None"]

\* closeSidebar
CloseSidebar(v) ==
  [v EXCEPT !.sidebarOpen = FALSE, !.sidebarPage = Null, !.sidebarSelectedId = Null,
            !.sidebarDraftText = "", !.sidebarDraftTag = "None"]

\* ------------------------------------------------------------------ import
\* A file's text: [json |-> data] when it is JSON, anything else when it is not.
\* data: [type |-> "null"], or [type |-> "object", fields |-> a function on
\* the keys present].
JSONparseThrows(text) == "json" \notin DOMAIN text

\* data.key || {}
FieldOrEmpty(data, key) ==
  IF key \in DOMAIN data.fields THEN data.fields[key] ELSE EmptyMap

\* An import that keeps what the file has no key for.
ImportFileLoadedMerges(v, text) ==
  IF JSONparseThrows(text) THEN v
  ELSE
    LET data == JSONparse(text)
        v1 == doPushHistory(v)
    IN IF data.type = "null" THEN v1
       ELSE doPersist([v1 EXCEPT
              !.annotations = IF "annotations" \in DOMAIN data.fields
                              THEN data.fields.annotations ELSE v1.annotations,
              !.comments = IF "comments" \in DOMAIN data.fields
                           THEN data.fields.comments ELSE v1.comments])

\* reader.onload of onImportFileChange: try { ... } catch { } finally { }
ImportFileLoaded(v, text) ==
  IF JSONparseThrows(text) THEN v
  ELSE
    LET data == JSONparse(text)
        v1 == doPushHistory(v)
    IN IF data.type = "null" THEN v1    \* data.annotations throws; caught
       ELSE doPersist([v1 EXCEPT !.annotations = FieldOrEmpty(data, "annotations"),
                                 !.comments = FieldOrEmpty(data, "comments")])

ImportedRect == [x |-> 0, y |-> 0, width |-> 200, height |-> 200]
ImportedComment(n, text, tag) ==
  [id |-> [src |-> "file", n |-> n], kind |-> "note", x |-> 100, y |-> 100,
   text |-> text, tag |-> tag, createdAt |-> [session |-> "file", ms |-> n]]
ObjectData(fields) == [type |-> "object", fields |-> fields]
ImportFiles ==
  { [garbage |-> "not json"],
    [json |-> [type |-> "null"]],
    [json |-> ObjectData("annotations" :> (1 :> <<ImportedRect>>))],
    [json |-> ObjectData("comments" :>
       ((1 :> <<ImportedComment(1, "imported", "Question"), ImportedComment(2, "", "None")>>)
          @@ (2 :> <<ImportedComment(3, "", "None")>>)))] }

\* A file in which two records carry one id (no record is checked on import).
ClashingFile ==
  [json |-> ObjectData("comments" :>
     (1 :> <<ImportedComment(1, "imported", "Question"), ImportedComment(1, "", "None")>>))]

\* ---------------------------------------------------------- componentDidLoad
\* Up to the await of the pdf's page count; image and text run to the end.
DidLoadBegin(v, fileType) ==
  LET v1 == IF v.storage.annotations # NoItem
            THEN [v EXCEPT !.annotations = JSONparse(v.storage.annotations[1])] ELSE v
      v2 == IF v1.storage.comments # NoItem
            THEN [v1 EXCEPT !.comments = JSONparse(v1.storage.comments[1])] ELSE v1
  IN IF fileType = "pdf" THEN [v2 EXCEPT !.phase = "awaiting"]
     ELSE doPushHistory([v2 EXCEPT !.numPages = 1, !.phase = "ready"])

\* After the await: numPages = pdf.numPages, then the first pushState.
DidLoadResume(v, pdfNumPages) ==
  doPushHistory([v EXCEPT !.numPages = pdfNumPages, !.phase = "ready"])

\* ------------------------------------------------------- IEEE 754 doubles
\* The numbers the page computes with are JavaScript Numbers. A double is
\* [sign, exp, bits]: bits is the 53-digit significand, most significant
\* digit first and 1, and the value is sign * (bits read as a binary number)
\* * 2^exp. Zero has no digits. Results are rounded to nearest, ties to even.
\* The values of the model are far from the subnormal and the overflow
\* range; integers are below 2^30 and divisors and factors below 2^12.
Precision == 53
Limb == 18
Zero == [sign |-> 1, exp |-> 0, bits |-> <<>>]

\* The number of binary digits of a natural number below 2^30.
BitLen(n) == CHOOSE k \in 0..30 : n < 2^k /\ (k = 0 \/ n >= 2^(k - 1))
\* The last len binary digits of n, most significant first.
FixedBits(n, len) == [i \in 1..len |-> (n \div 2^(len - i)) % 2]
IntBits(n) == FixedBits(n, BitLen(n))
\* The number a sequence of at most 30 digits stands for.
RECURSIVE Value(_)
Value(bits) ==
  IF bits = <<>> THEN 0
  ELSE IF Len(bits) = 1 THEN bits[1]
  ELSE LET half == Len(bits) \div 2
       IN Value(SubSeq(bits, 1, half)) * 2^(Len(bits) - half)
          + Value(SubSeq(bits, half + 1, Len(bits)))

Zeros(n) == [i \in 1..n |-> 0]

StripZeros(bits) ==
  IF \A i \in 1..Len(bits) : bits[i] = 0 THEN <<>>
  ELSE LET first == CHOOSE i \in 1..Len(bits) :
                      bits[i] = 1 /\ \A j \in 1..(i - 1) : bits[j] = 0
       IN SubSeq(bits, first, Len(bits))

\* bits + 1, one digit longer when every digit was 1.
Increment(bits) ==
  IF \A i \in 1..Len(bits) : bits[i] = 1 THEN <<1>> \o Zeros(Len(bits))
  ELSE LET last == CHOOSE i \in 1..Len(bits) :
                     bits[i] = 0 /\ \A j \in (i + 1)..Len(bits) : bits[j] = 1
       IN [i \in 1..Len(bits) |-> IF i < last THEN bits[i] ELSE IF i = last THEN 1 ELSE 0]

\* bits - 1, for bits that are not all 0 (the length is kept).
Decrement(bits) ==
  LET last == CHOOSE i \in 1..Len(bits) :
                bits[i] = 1 /\ \A j \in (i + 1)..Len(bits) : bits[j] = 0
  IN [i \in 1..Len(bits) |-> IF i < last THEN bits[i] ELSE IF i = last THEN 0 ELSE 1]

\* The double nearest to sign * bits * 2^exp (plus something below the last
\* digit when sticky), bits starting with 1.
Round(sign, bits, exp, sticky) ==
  IF bits = <<>> THEN Zero
  ELSE IF Len(bits) <= Precision
  THEN [sign |-> sign, exp |-> exp - (Precision - Len(bits)),
        bits |-> bits \o Zeros(Precision - Len(bits))]
  ELSE
    LET kept == SubSeq(bits, 1, Precision)
        half == bits[Precision + 1] = 1
        below == sticky \/ \E i \in (Precision + 2)..Len(bits) : bits[i] = 1
        up == half /\ (below \/ kept[Precision] = 1)
        sum == IF up THEN Increment(kept) ELSE kept
        e == exp + (Len(bits) - Precision)
    IN IF Len(sum) > Precision
       THEN [sign |-> sign, exp |-> e + 1, bits |-> SubSeq(sum, 1, Precision)]
       ELSE [sign |-> sign, exp |-> e, bits |-> sum]

\* Number(n) for an integer n.
FromInt(n) ==
  IF n < 0 THEN Round(-1, IntBits(-n), 0, FALSE) ELSE Round(1, IntBits(n), 0, FALSE)

\* a / b for integers a and b, b > 0: the quotient by long division, to
\* five limbs after the binary point.
FDiv(a, b) ==
  LET n == IF a < 0 THEN -a ELSE a
      d1 == ((n % b) * 2^Limb) \div b
      r1 == ((n % b) * 2^Limb) % b
      d2 == (r1 * 2^Limb) \div b
      r2 == (r1 * 2^Limb) % b
      d3 == (r2 * 2^Limb) \div b
      r3 == (r2 * 2^Limb) % b
      d4 == (r3 * 2^Limb) \div b
      r4 == (r3 * 2^Limb) % b
      d5 == (r4 * 2^Limb) \div b
      r5 == (r4 * 2^Limb) % b
      digits == StripZeros(IntBits(n \div b) \o FixedBits(d1, Limb) \o FixedBits(d2, Limb)
                           \o FixedBits(d3, Limb) \o FixedBits(d4, Limb) \o FixedBits(d5, Limb))
  IN Round(IF a < 0 THEN -1 ELSE 1, digits, -(5 * Limb), r5 # 0)

\* f * n for a double f and an integer n >= 0, the significand taken in
\* three limbs.
FMul(f, n) ==
  IF f = Zero \/ n = 0 THEN Zero
  ELSE
    LET t0 == Value(SubSeq(f.bits, Precision - Limb + 1, Precision)) * n
        t1 == Value(SubSeq(f.bits, Precision - 2 * Limb + 1, Precision - Limb)) * n
              + t0 \div 2^Limb
        t2 == Value(SubSeq(f.bits, 1, Precision - 2 * Limb)) * n + t1 \div 2^Limb
    IN Round(f.sign,
             IntBits(t2) \o FixedBits(t1 % 2^Limb, Limb) \o FixedBits(t0 % 2^Limb, Limb),
             f.exp, FALSE)

\* The doubles next to f, away from and towards zero.
Succ(f) ==
  IF f = Zero THEN Zero
  ELSE LET sum == Increment(f.bits)
       IN IF Len(sum) > Precision
          THEN [f EXCEPT !.exp = f.exp + 1, !.bits = SubSeq(sum, 1, Precision)]
          ELSE [f EXCEPT !.bits = sum]
Pred(f) ==
  IF f = Zero THEN Zero
  ELSE IF f.bits = <<1>> \o Zeros(Precision - 1)
  THEN [f EXCEPT !.exp = f.exp - 1, !.bits = [i \in 1..Precision |-> 1]]
  ELSE [f EXCEPT !.bits = Decrement(f.bits)]

\* f is c or one of the two doubles on either side of it.
WithinTwoUlps(f, c) ==
  f \in {c, Succ(c), Succ(Succ(c)), Pred(c), Pred(Pred(c))}

\* f <= 1, and 0 <= f.
AtMostOne(f) ==
  \/ f = Zero \/ f.sign = -1
  \/ f.exp + Precision <= 0
  \/ f.exp + Precision = 1 /\ f.bits = <<1>> \o Zeros(Precision - 1)
NotNegative(f) == f = Zero \/ f.sign = 1


\* f + g <= 1 in exact arithmetic, for doubles f >= g > 0: g is brought to
\* f's exponent, the digits this drops counting as something more.
SumOrdered(f, g) ==
  LET shift == f.exp - g.exp
      gb == IF shift >= Precision THEN <<>> ELSE SubSeq(g.bits, 1, Precision - shift)
      more == \E i \in 1..Precision : i > Precision - shift /\ g.bits[i] = 1
      s0 == Value(SubSeq(f.bits, Precision - Limb + 1, Precision))
            + Value(SubSeq(Zeros(Precision - Len(gb)) \o gb, Precision - Limb + 1, Precision))
      s1 == Value(SubSeq(f.bits, Precision - 2 * Limb + 1, Precision - Limb))
            + Value(SubSeq(Zeros(Precision - Len(gb)) \o gb,
                           Precision - 2 * Limb + 1, Precision - Limb))
            + s0 \div 2^Limb
      s2 == Value(SubSeq(f.bits, 1, Precision - 2 * Limb))
            + Value(SubSeq(Zeros(Precision - Len(gb)) \o gb, 1, Precision - 2 * Limb))
            + s1 \div 2^Limb
      sum == IntBits(s2) \o FixedBits(s1 % 2^Limb, Limb) \o FixedBits(s0 % 2^Limb, Limb)
  IN \/ Len(sum) + f.exp <= 0
     \/ Len(sum) + f.exp = 1 /\ ~more /\ \A i \in 2..Len(sum) : sum[i] = 0
SumAtMostOne(f, g) ==
  IF f = Zero THEN AtMostOne(g)
  ELSE IF g = Zero THEN AtMostOne(f)
  ELSE IF f.exp >= g.exp THEN SumOrdered(f, g) ELSE SumOrdered(g, f)

\* ---------------------------------------------------------------- DocPage
\* One doc-page component, its layer, the highlights drawn in it and the
\* events it emits; the comment icons are left aside. Which element
\* a mouse event reaches is decided by the browser from the styles in force
\* (the stylesheet is not part of the sources): a handler may run whenever
\* its listener is registered. Pointer positions are taken relative to the
\* layer's box, as the handlers compute them (e.clientX - rect.left).
\* The tools the toolbar is used for here (the note tool goes the way of the
\* comment tool).
Tools == {"select", "highlight", "comment"}
\* getBoundingClientRect() of the layer: not laid out, and three page sizes.
LayerRects ==
  { [width |-> 0, height |-> 0], [width |-> 1000, height |-> 500],
    [width |-> 800, height |-> 400], [width |-> 595, height |-> 842] }
Offsets == { [x |-> 10, y |-> 20], [x |-> 110, y |-> 70] }
\* window.getSelection(): collapsed, or the box of its range relative to the
\* layer's box; the second one starts above the layer.
Selections ==
  { Null,
    Some([left |-> 10, top |-> 20, width |-> 100, height |-> 50]),
    Some([left |-> 10, top |-> -20, width |-> 100, height |-> 50]) }
\* width > 3 && height > 3
MinSize == 3

\* A length of a style: '' (not set) is <<>>, `${n}px` is <<n>>; and
\* parseFloat(style.prop || '0').
Unset == <<>>
Px(n) == <<n>>
parseFloat(s) == IF s = Unset THEN 0 ELSE s[1]
\* style.width = `${n}px`: a negative length is no value of width or height,
\* and the assignment is dropped.
SetLength(old, n) == IF n < 0 THEN old ELSE Px(n)

\* The fields of a new component.
NewDocPage(fileType) ==
  [ page |-> 1, fileType |-> fileType, activeTool |-> "select", readOnly |-> FALSE,
    annotations |-> <<>>,
    hasRendered |-> FALSE,
    annotationLayerEl |-> Null,    \* Some([listeners, pointerEvents])
    layerRect |-> [width |-> 0, height |-> 0],
    isDrawing |-> FALSE, startX |-> 0, startY |-> 0,
    currentRectEl |-> Null,        \* Some(style of the provisional rectangle)
    attached |-> FALSE,            \* currentRectEl is a child of the layer
    rectEls |-> <<>> ]             \* the highlights drawn in the layer

\* What a handler call leaves: the component and the events it emitted.
Quiet(p) == [page |-> p, events |-> <<>>]
Emits(p, event) == [page |-> p, events |-> <<event>>]

ZeroSized(rect) == rect.width = 0 \/ rect.height = 0

\* The normalized rectangle of a pixel box on a layer box.
toNormalized(left, top, width, height, layerRect) ==
  [ x |-> FDiv(left, layerRect.width), y |-> FDiv(top, layerRect.height),
    width |-> FDiv(width, layerRect.width), height |-> FDiv(height, layerRect.height) ]

\* A rendering that multiplies every coordinate by the layer's width.
toPixelsByWidth(a, layerRect) ==
  [ left |-> FMul(a.x, layerRect.width), top |-> FMul(a.y, layerRect.width),
    width |-> FMul(a.width, layerRect.width), height |-> FMul(a.height, layerRect.width) ]

\* The style redrawHighlightsFromProps gives the element of a rectangle.
toPixels(a, layerRect) ==
  [ left |-> FMul(a.x, layerRect.width), top |-> FMul(a.y, layerRect.height),
    width |-> FMul(a.width, layerRect.width), height |-> FMul(a.height, layerRect.height) ]

\* A redraw that takes the rectangles out of the array it was given (pop()).
redrawHighlightsFromPropsDrains(p) ==
  IF p.annotationLayerEl = Null THEN p
  ELSE IF ZeroSized(p.layerRect) THEN [p EXCEPT !.rectEls = <<>>, !.attached = FALSE]
  ELSE [p EXCEPT !.attached = FALSE, !.annotations = <<>>,
          !.rectEls = [i \in 1..Len(p.annotations) |-> toPixels(p.annotations[i], p.layerRect)]]

\* redrawHighlightsFromProps(): every .annotationRect goes, the provisional
\* one included; one element per rectangle of the prop is drawn.
redrawHighlightsFromProps(p) ==
  IF p.annotationLayerEl = Null THEN p
  ELSE IF ZeroSized(p.layerRect) THEN [p EXCEPT !.rectEls = <<>>, !.attached = FALSE]
  ELSE [p EXCEPT !.attached = FALSE,
          !.rectEls = [i \in 1..Len(p.annotations) |-> toPixels(p.annotations[i], p.layerRect)]]

\* setupAnnotationLayer(pageDiv): a new, empty layer; the mouse listeners
\* are added when the page is not read-only.
setupAnnotationLayer(p) ==
  [p EXCEPT !.annotationLayerEl =
              Some([ listeners |-> ~p.readOnly,
                     pointerEvents |-> IF p.readOnly /\ p.activeTool = "select"
                                       THEN "none" ELSE "auto" ]),
            !.rectEls = <<>>, !.attached = FALSE]

\* ensureRendered() with visible = true, up to the end of the render: the
\* layer is set up and the highlights are drawn.
ensureRendered(p) ==
  IF p.hasRendered THEN p
  ELSE redrawHighlightsFromProps(setupAnnotationLayer([p EXCEPT !.hasRendered = TRUE]))

\* ensureRendered() that sets hasRendered only when the render has ended.
ensureRenderedMarksLate(p, vis) ==
  IF ~vis \/ p.hasRendered THEN [page |-> p, started |-> FALSE]
  ELSE [page |-> p, started |-> TRUE]

\* ensureRendered() up to the await of the render, vis the visible prop:
\* the component after, and whether a render was started.
ensureRenderedBegin(p, vis) ==
  IF ~vis \/ p.hasRendered THEN [page |-> p, started |-> FALSE]
  ELSE [page |-> [p EXCEPT !.hasRendered = TRUE], started |-> TRUE]

\* The end of renderPdfPage / renderImagePage / renderTextPage, r the box
\* the layer is given: the layer is set up and the highlights are drawn.
renderEnd(p, r) ==
  redrawHighlightsFromProps(setupAnnotationLayer([p EXCEPT !.layerRect = r]))

\* activeToolChanged(), the prop being tool already.
activeToolChanged(p) ==
  IF p.annotationLayerEl = Null THEN p
  ELSE [p EXCEPT !.annotationLayerEl =
          Some([p.annotationLayerEl[1] EXCEPT
                  !.pointerEvents = IF p.activeTool = "select" THEN "none" ELSE "auto"])]

\* onMouseDown(e) without the test of readOnly.
onMouseDownIgnoresReadOnly(p, e) ==
  IF p.annotationLayerEl = Null THEN Quiet(p)
  ELSE IF ZeroSized(p.layerRect) THEN Quiet(p)
  ELSE IF p.activeTool \in {"comment", "note"}
  THEN Emits(p, [ name |-> "commentAddRequested", page |-> p.page,
                  x |-> FDiv(e.x, p.layerRect.width),
                  y |-> FDiv(e.y, p.layerRect.height),
                  kind |-> IF p.activeTool = "comment" THEN "comment" ELSE "note" ])
  ELSE IF p.activeTool # "highlight" \/ p.fileType = "text" THEN Quiet(p)
  ELSE Quiet([p EXCEPT !.isDrawing = TRUE, !.startX = e.x, !.startY = e.y,
                       !.currentRectEl = Some([ left |-> Px(e.x), top |-> Px(e.y),
                                                width |-> Unset, height |-> Unset ]),
                       !.attached = TRUE])

\* onMouseDown(e), e the pointer's position relative to the layer.
onMouseDown(p, e) ==
  IF p.annotationLayerEl = Null \/ p.readOnly THEN Quiet(p)
  ELSE IF ZeroSized(p.layerRect) THEN Quiet(p)
  ELSE IF p.activeTool \in {"comment", "note"}
  THEN Emits(p, [ name |-> "commentAddRequested", page |-> p.page,
                  x |-> FDiv(e.x, p.layerRect.width),
                  y |-> FDiv(e.y, p.layerRect.height),
                  kind |-> IF p.activeTool = "comment" THEN "comment" ELSE "note" ])
  ELSE IF p.activeTool # "highlight" \/ p.fileType = "text" THEN Quiet(p)
  ELSE Quiet([p EXCEPT !.isDrawing = TRUE, !.startX = e.x, !.startY = e.y,
                       !.currentRectEl = Some([ left |-> Px(e.x), top |-> Px(e.y),
                                                width |-> Unset, height |-> Unset ]),
                       !.attached = TRUE])

\* onMouseMove(e)
onMouseMove(p, e) ==
  IF p.readOnly THEN Quiet(p)
  ELSE IF ~p.isDrawing \/ p.currentRectEl = Null \/ p.annotationLayerEl = Null THEN Quiet(p)
  ELSE IF ZeroSized(p.layerRect) THEN Quiet(p)
  ELSE LET el == p.currentRectEl[1]
       IN Quiet([p EXCEPT !.currentRectEl =
                   Some([el EXCEPT !.width = SetLength(el.width, e.x - p.startX),
                                   !.height = SetLength(el.height, e.y - p.startY)])])

\* onMouseUp() that leaves a rectangle too small where it is.
onMouseUpKeepsSmall(p) ==
  IF p.readOnly THEN Quiet(p)
  ELSE IF ~p.isDrawing \/ p.annotationLayerEl = Null \/ p.currentRectEl = Null THEN Quiet(p)
  ELSE
    LET el == p.currentRectEl[1]
        width == parseFloat(el.width)
        height == parseFloat(el.height)
        done == [p EXCEPT !.isDrawing = FALSE, !.currentRectEl = Null, !.attached = FALSE]
    IN IF width > MinSize /\ height > MinSize /\ ~ZeroSized(p.layerRect)
       THEN Emits(done, [ name |-> "annotationCreated", page |-> p.page,
                          rect |-> toNormalized(parseFloat(el.left), parseFloat(el.top),
                                                width, height, p.layerRect) ])
       ELSE Quiet(p)

\* onMouseUp()
onMouseUp(p) ==
  IF p.readOnly THEN Quiet(p)
  ELSE IF ~p.isDrawing \/ p.annotationLayerEl = Null \/ p.currentRectEl = Null THEN Quiet(p)
  ELSE
    LET el == p.currentRectEl[1]
        width == parseFloat(el.width)
        height == parseFloat(el.height)
        done == [p EXCEPT !.isDrawing = FALSE, !.currentRectEl = Null, !.attached = FALSE]
    IN IF width > MinSize /\ height > MinSize /\ ~ZeroSized(p.layerRect)
       THEN Emits(done, [ name |-> "annotationCreated", page |-> p.page,
                          rect |-> toNormalized(parseFloat(el.left), parseFloat(el.top),
                                                width, height, p.layerRect) ])
       ELSE Quiet(done)

\* handleTextMouseUp(), sel the selection found.
handleTextMouseUp(p, sel) ==
  IF p.readOnly \/ p.fileType # "text" \/ p.activeTool # "highlight" THEN Quiet(p)
  ELSE IF p.annotationLayerEl = Null THEN Quiet(p)
  ELSE
    LET auto == [p EXCEPT !.annotationLayerEl =
                   Some([p.annotationLayerEl[1] EXCEPT !.pointerEvents = "auto"])]
    IN IF sel = Null THEN Quiet(auto)
       ELSE IF ZeroSized(p.layerRect) \/ ZeroSized(sel[1]) THEN Quiet(auto)
       ELSE
         LET rect == sel[1]
             el == [ left |-> FromInt(rect.left), top |-> FromInt(rect.top),
                     width |-> FromInt(rect.width), height |-> FromInt(rect.height) ]
         IN Emits([auto EXCEPT !.rectEls = Append(p.rectEls, el)],
                  [ name |-> "annotationCreated", page |-> p.page,
                    rect |-> toNormalized(rect.left, rect.top, rect.width, rect.height,
                                          p.layerRect) ])

\* ------------------------------------------------- HistoryManager, by reference
\* The two HistoryManager classes on a heap of objects, to tell a copy from
\* the object itself. A state object T holds one nested object; a reference
\* is an index into heap.
\*   [tag |-> "state", annotations |-> ref]   the object handed to the manager
\*   [tag |-> "map", val |-> v]               the nested object and its content
Vals == {"a", "b"}
StateCell(child) == [tag |-> "state", annotations |-> child]
MapCell(val) == [tag |-> "map", val |-> val]

\* The manager and its caller as one record: M.
M == [heap |-> heap, undoStack |-> undoStack, redoStack |-> redoStack,
      live |-> live, snap |-> snap]

\* The content of the state object at ref, all the way down.
Deep(h, ref) == [annotations |-> h[h[ref].annotations].val]

\* No copy at all: the object itself.
shareOn(h, ref) == [ref |-> ref, heap |-> h]

\* JSON.parse(JSON.stringify(obj)): new objects all the way down; [ref, heap].
cloneOn(h, ref) ==
  LET h1 == Append(h, MapCell(h[h[ref].annotations].val))
      h2 == Append(h1, StateCell(Len(h1)))
  IN [ref |-> Len(h2), heap |-> h2]

\* pushState(state), workspace version lines 138-141, utils version 166-169.
HeapPushState(m, state) ==
  LET c == cloneOn(m.heap, state)
  IN [m EXCEPT !.heap = c.heap, !.undoStack = Append(m.undoStack, c.ref), !.redoStack = <<>>]

\* undo(current): the workspace version returns a copy of the popped entry,
\* the utils version the popped entry itself. The caller keeps what it gets.
HeapUndo(m, version, current) ==
  IF Len(m.undoStack) = 0 THEN [m EXCEPT !.snap = Null]
  ELSE
    LET c == cloneOn(m.heap, current)
        popped == Last(m.undoStack)
        m1 == [m EXCEPT !.heap = c.heap, !.redoStack = Append(m.redoStack, c.ref),
                        !.undoStack = Front(m.undoStack)]
    IN IF version = "workspace"
       THEN LET r == cloneOn(m1.heap, popped)
            IN [m1 EXCEPT !.heap = r.heap, !.snap = Some(r.ref)]
       ELSE [m1 EXCEPT !.snap = Some(popped)]

\* redo(current)
HeapRedo(m, version, current) ==
  IF Len(m.redoStack) = 0 THEN [m EXCEPT !.snap = Null]
  ELSE
    LET c == cloneOn(m.heap, current)
        popped == Last(m.redoStack)
        m1 == [m EXCEPT !.heap = c.heap, !.undoStack = Append(m.undoStack, c.ref),
                        !.redoStack = Front(m.redoStack)]
    IN IF version = "workspace"
       THEN LET r == cloneOn(m1.heap, popped)
            IN [m1 EXCEPT !.heap = r.heap, !.snap = Some(r.ref)]
       ELSE [m1 EXCEPT !.snap = Some(popped)]

\* The caller writes into the nested object of a state object it holds.
HeapMutate(m, ref, val) ==
  [m EXCEPT !.heap = [m.heap EXCEPT ![m.heap[ref].annotations] = MapCell(val)]]

\* The caller takes the snapshot it was handed as its state (what DocViewer's
\* undo and redo do with state.annotations and state.comments).
HeapAdopt(m) == [m EXCEPT !.live = m.snap[1], !.snap = Null]

\* Objects no one references are collected, and the references renamed in
\* the order the stacks, then the caller, reach them: which number names an
\* object is not observable.
RootsOf(m) == m.undoStack \o m.redoStack \o <<m.live>> \o m.snap
RECURSIVE Visit(_, _, _)
Visit(h, roots, seen) ==
  IF roots = <<>> THEN seen
  ELSE LET r == roots[1]
           s1 == IF \E i \in 1..Len(seen) : seen[i] = r THEN seen ELSE Append(seen, r)
           c == h[r].annotations
           s2 == IF \E i \in 1..Len(s1) : s1[i] = c THEN s1 ELSE Append(s1, c)
       IN Visit(h, Tail(roots), s2)
Renamed(order, ref) == CHOOSE i \in 1..Len(order) : order[i] = ref
Collect(m) ==
  LET order == Visit(m.heap, RootsOf(m), <<>>)
      cell(i) == LET old == m.heap[order[i]]
                 IN IF old.tag = "state" THEN StateCell(Renamed(order, old.annotations)) ELSE old
  IN [heap |-> [i \in 1..Len(order) |-> cell(i)],
      undoStack |-> [i \in 1..Len(m.undoStack) |-> Renamed(order, m.undoStack[i])],
      redoStack |-> [i \in 1..Len(m.redoStack) |-> Renamed(order, m.redoStack[i])],
      live |-> Renamed(order, m.live),
      snap |-> [i \in 1..Len(m.snap) |-> Renamed(order, m.snap[i])]]

\* Every object reachable from the given state objects.
Reach(h, roots) == {roots[i] : i \in 1..Len(roots)} \cup {h[roots[i]].annotations : i \in 1..Len(roots)}
\* What the two stacks store, by content.
Stored ==
  [undoStack |-> [i \in 1..Len(undoStack) |-> Deep(heap, undoStack[i])],
   redoStack |-> [i \in 1..Len(redoStack) |-> Deep(heap, redoStack[i])]]

\* ---------------------------------------------------------------- observers
\* Set(v): the viewer's fields after a handler are those of v.
Set(v) ==
  /\ phase' = v.phase
  /\ numPages' = v.numPages
  /\ annotations' = v.annotations
  /\ comments' = v.comments
  /\ sidebarOpen' = v.sidebarOpen
  /\ sidebarPage' = v.sidebarPage
  /\ sidebarSelectedId' = v.sidebarSelectedId
  /\ sidebarDraftText' = v.sidebarDraftText
  /\ sidebarDraftTag' = v.sidebarDraftTag
  /\ history' = v.history
  /\ storage' = v.storage
  /\ threw' = v.threw
  /\ UNCHANGED uuidAvail

\* Track(tag, kind): what the observers record of a handler call. tag names
\* the handler and its outcome; kind is "push" (the handler called
\* pushState), "undo" (an undo that returned a snapshot), "reset" (a redo
\* that returned one, or the load) or "none".
\*   watch = "ops"   : lastOp is the last call that did anything, the calls
\*                     of undo and redo recorded as "history"; a call that
\*                     returned at once leaves it.
\*   watch = "calls" : lastOp is the outcome of the last call on the history
\*                     manager ("push:cleared" for a pushState that found the
\*                     redo stack non-empty), preUndo the state a successful
\*                     undo left.
\*   watch = "runs"  : opPre holds the pre-states of the pushes since the
\*                     last reset, undone the undos that followed them.
NoopTags == {"undo:none", "redo:none", "import:invalid"}
HistoryTags == {"undo:none", "redo:none", "undo:some", "redo:some"}
TrackOps(tag, kind) ==
  /\ lastOp' = IF tag \in NoopTags THEN lastOp
               ELSE IF tag \in HistoryTags THEN "history" ELSE tag
  /\ UNCHANGED <<preUndo, opPre, undone>>
TrackCalls(tag, kind) ==
  /\ lastOp' = IF tag \in HistoryTags THEN tag
               ELSE IF kind = "push" \/ tag = "load:done"
                    THEN (IF history.future # <<>> THEN "push:cleared" ELSE "push")
               ELSE lastOp
  /\ preUndo' = IF tag = "undo:some" THEN Some(Canon)
                ELSE IF tag \in HistoryTags \/ kind = "push" \/ tag = "load:done" THEN Null
                ELSE preUndo
  /\ UNCHANGED <<opPre, undone>>
TrackRuns(tag, kind) ==
  /\ UNCHANGED <<lastOp, preUndo>>
  /\ CASE kind = "push" ->
            /\ opPre' = IF undone > 0 THEN <<Canon>> ELSE Append(opPre, Canon)
            /\ undone' = 0
       [] kind = "undo" ->
            IF undone < Len(opPre)
            THEN opPre' = opPre /\ undone' = undone + 1
            ELSE opPre' = <<>> /\ undone' = 0
       [] kind = "reset" -> opPre' = <<>> /\ undone' = 0
       [] OTHER -> UNCHANGED <<opPre, undone>>
Track(tag, kind) ==
  /\ UNCHANGED <<watch, heapVars, pageVars, strays, renderVars, keyVars>>
  /\ CASE watch = "ops" -> TrackOps(tag, kind)
       [] watch = "calls" -> TrackCalls(tag, kind)
       [] OTHER -> TrackRuns(tag, kind)

\* The undo stack has room for one more pushState.
CanPush == Len(history.past) < MaxHist

\* renderSidebar(): the sidebar is drawn, and the record it edits.
SidebarRendered == sidebarOpen /\ TruthyPage(sidebarPage)
SidebarComments == IF TruthyPage(sidebarPage) THEN Get(comments, sidebarPage[1]) ELSE <<>>
EditorRendered ==
  /\ SidebarRendered
  /\ TruthyId(sidebarSelectedId)
  /\ findIndex(SidebarComments, sidebarSelectedId[1]) # 0

\* ------------------------------------------------------------------ actions
\* A page whose life cycle is not followed (a render is one step).
NoRender ==
  /\ visible = FALSE
  /\ didLoad = FALSE
  /\ renders = 0
  /\ pending = 0
  /\ skipped = FALSE

\* No second viewer is followed.
Docs == {"A", "B"}
NoKeys ==
  /\ srcs = [d \in Docs |-> <<>>]
  /\ localStorage = <<>>
  /\ loadedFrom = [d \in Docs |-> Null]

InitViewer ==
  /\ NoRender
  /\ phase = "constructed"
  /\ numPages = 0
  /\ annotations = EmptyMap
  /\ comments = EmptyMap
  /\ sidebarOpen = FALSE
  /\ sidebarPage = Null
  /\ sidebarSelectedId = Null
  /\ sidebarDraftText = ""
  /\ sidebarDraftTag = "None"
  /\ history = NewHistory
  /\ storage = EmptyStorage
  /\ uuidAvail = TRUE
  /\ threw = FALSE
  /\ lastOp = "init"
  /\ preUndo = Null
  /\ opPre = <<>>
  /\ undone = 0
  /\ heap = <<MapCell("a"), StateCell(1)>>
  /\ undoStack = <<>>
  /\ redoStack = <<>>
  /\ live = 2
  /\ snap = Null
  /\ lastCall = "new"
  /\ docPage = NewDocPage("pdf")
  /\ emitted = <<>>
  /\ strays = 0

Init == InitViewer /\ NoKeys /\ watch = "ops" /\ mgrVersion = "utils"
InitRuns == InitViewer /\ NoKeys /\ watch = "runs" /\ mgrVersion = "utils"
InitCalls == InitViewer /\ NoKeys /\ watch = "calls" /\ mgrVersion = "utils"
\* A HistoryManager of either class and a caller of it, the viewer left aside.
InitHeap == InitViewer /\ NoKeys /\ watch = "heap" /\ mgrVersion \in {"workspace", "utils"}

componentDidLoad ==
  /\ phase = "constructed"
  /\ \E fileType \in FileTypes :
       /\ Set(DidLoadBegin(V, fileType))
       /\ Track(IF fileType = "pdf" THEN "load:await" ELSE "load:done", "reset")

componentDidLoadResume ==
  /\ phase = "awaiting"
  /\ CanPush
  /\ \E n \in 1..MaxPages :
       /\ Set(DidLoadResume(V, n))
       /\ Track("load:done", "reset")

undo ==
  /\ phase # "constructed"
  /\ Set(ViewerUndo(V))
  /\ IF HistoryUndo(history, Canon).ret = Null
     THEN Track("undo:none", "none")
     ELSE Track("undo:some", "undo")

redo ==
  /\ phase # "constructed"
  /\ Set(ViewerRedo(V))
  /\ IF HistoryRedo(history, Canon).ret = Null
     THEN Track("redo:none", "none")
     ELSE Track("redo:some", "reset")

handleAnnotationCreated ==
  /\ phase = "ready"
  /\ CanPush
  /\ \E page \in 1..numPages, rect \in Rects :
       /\ Set(AnnotationCreated(V, page, rect))
       /\ Track("createAnnotation", "push")

handleCommentAddRequested ==
  /\ phase = "ready"
  /\ CanPush
  /\ \E page \in 1..numPages, x \in ClickXs, y \in ClickYs, kind \in ClickKinds :
       /\ Set(CommentAddRequested(V, page, x, y, kind, newId(clockReading), clockReading))
       /\ Track("requestComment", "push")

handleCommentIconClicked ==
  /\ phase = "ready"
  /\ \E page \in 1..numPages :
       \E commentId \in IdsOfList(Get(comments, page)) :
         /\ Set(CommentIconClicked(V, page, commentId))
         /\ Track("iconClicked", "none")

selectSidebarComment ==
  /\ SidebarRendered
  /\ \E id \in IdsOfList(SidebarComments) :
       /\ Set(SelectSidebarComment(V, id))
       /\ Track("selectComment", "none")

setDraftText ==
  /\ EditorRendered
  /\ \E text \in Texts :
       /\ Set([V EXCEPT !.sidebarDraftText = text])
       /\ Track("draft", "none")

setDraftTag ==
  /\ EditorRendered
  /\ \E tag \in TagInputs :
       /\ Set([V EXCEPT !.sidebarDraftTag = tag])
       /\ Track("draft", "none")

\* Without a sidebar page or a selected id the handler returns at once: no step.
saveSidebarAnnotation ==
  /\ TruthyPage(sidebarPage) /\ TruthyId(sidebarSelectedId)
  /\ CanPush
  /\ Set(SaveSidebarAnnotation(V))
  /\ IF findIndex(SidebarComments, sidebarSelectedId[1]) = 0
     THEN Track("save:miss", "push")
     ELSE Track("save:hit", "push")

\* The button is part of the editor, drawn for a record that exists.
autoTag ==
  /\ EditorRendered
  /\ CanPush
  /\ Set(AutoTagClicked(V))
  /\ Track("autoTag", "push")

deleteSidebarAnnotation ==
  /\ TruthyPage(sidebarPage) /\ TruthyId(sidebarSelectedId)
  /\ CanPush
  /\ Set(DeleteSidebarAnnotation(V))
  /\ IF findIndex(SidebarComments, sidebarSelectedId[1]) = 0
     THEN Track("delete:miss", "push")
     ELSE Track("delete:hit", "push")

closeSidebar ==
  /\ SidebarRendered
  /\ Set(CloseSidebar(V))
  /\ Track("closeSidebar", "none")

onImportFileChange ==
  /\ phase # "constructed"
  /\ \E text \in ImportFiles :
       /\ Set(ImportFileLoaded(V, text))
       /\ IF JSONparseThrows(text) THEN Track("import:invalid", "none")
          ELSE /\ CanPush
               /\ IF JSONparse(text).type = "null"
                  THEN Track("import:null", "push")
                  ELSE Track("import:ok", "push")

Next ==
  \/ componentDidLoad
  \/ componentDidLoadResume
  \/ undo
  \/ redo
  \/ handleAnnotationCreated
  \/ handleCommentAddRequested
  \/ handleCommentIconClicked
  \/ selectSidebarComment
  \/ setDraftText
  \/ setDraftTag
  \/ saveSidebarAnnotation
  \/ autoTag
  \/ deleteSidebarAnnotation
  \/ closeSidebar
  \/ onImportFileChange

\* The file picker hands over a file of any content: ClashingFile too.
onImportClashingFile ==
  /\ phase # "constructed"
  /\ CanPush
  /\ Set(ImportFileLoaded(V, ClashingFile))
  /\ Track("import:ok", "push")

NextFiles ==
  \/ Next
  \/ onImportClashingFile

\* --------------------------------------------- actions on a HistoryManager
SetHeap(m, call) ==
  /\ heap' = Collect(m).heap
  /\ undoStack' = Collect(m).undoStack
  /\ redoStack' = Collect(m).redoStack
  /\ live' = Collect(m).live
  /\ snap' = Collect(m).snap
  /\ lastCall' = call
  /\ UNCHANGED <<mgrVersion, viewerVars, observerVars, pageVars, strays, renderVars, keyVars>>

\* The objects the caller may pass or write to: its state and its snapshot.
CallerRefs == {live} \cup {snap[i] : i \in 1..Len(snap)}

callPushState ==
  /\ Len(undoStack) < MaxHist
  /\ \E state \in CallerRefs : SetHeap(HeapPushState(M, state), "pushState")

callUndo ==
  \E current \in CallerRefs :
    SetHeap(HeapUndo(M, mgrVersion, current), IF undoStack = <<>> THEN "undo:none" ELSE "undo:some")

callRedo ==
  \E current \in CallerRefs :
    SetHeap(HeapRedo(M, mgrVersion, current), IF redoStack = <<>> THEN "redo:none" ELSE "redo:some")

callerMutates ==
  \E val \in Vals :
    \/ SetHeap(HeapMutate(M, live, val), "mutate:live")
    \/ snap # Null /\ SetHeap(HeapMutate(M, snap[1], val), "mutate:snap")

callerAdopts ==
  /\ snap # Null
  /\ SetHeap(HeapAdopt(M), "adopt")

NextHeap ==
  \/ callPushState
  \/ callUndo
  \/ callRedo
  \/ callerMutates
  \/ callerAdopts

\* ------------------------------------------------------ actions on a page
\* The viewer after componentDidLoad with one page, and a new doc-page.
InitPageWatching(what) ==
  /\ phase = "ready"
  /\ numPages = 1
  /\ annotations = EmptyMap
  /\ comments = EmptyMap
  /\ sidebarOpen = FALSE
  /\ sidebarPage = Null
  /\ sidebarSelectedId = Null
  /\ sidebarDraftText = ""
  /\ sidebarDraftTag = "None"
  /\ history = pushHistory(NewHistory, [annotations |-> EmptyMap, comments |-> EmptyMap])
  /\ storage = EmptyStorage
  /\ uuidAvail = TRUE
  /\ threw = FALSE
  /\ watch = what
  /\ lastOp = "init"
  /\ preUndo = Null
  /\ opPre = <<>>
  /\ undone = 0
  /\ mgrVersion = "utils"
  /\ heap = <<MapCell("a"), StateCell(1)>>
  /\ undoStack = <<>>
  /\ redoStack = <<>>
  /\ live = 2
  /\ snap = Null
  /\ lastCall = "new"
  /\ \E fileType \in FileTypes : docPage = NewDocPage(fileType)
  /\ emitted = <<>>
  /\ strays = 0
  /\ NoKeys

InitPage == InitPageWatching("page") /\ NoRender
\* The same, the rectangles left behind in the layer counted.
InitDrag == InitPageWatching("drag") /\ NoRender

\* The viewer's listener of an event of the page.
Respond(v, event) ==
  CASE event.name = "annotationCreated" -> AnnotationCreated(v, event.page, event.rect)
    [] OTHER ->
         CommentAddRequested(v, event.page, event.x, event.y, event.kind,
                             newId(clockReading), clockReading)

\* The array of the annotations prop is the viewer's own annotations[page]
\* when it holds one: what a handler writes into it, the viewer holds.
WriteThrough(v, p, q) ==
  IF q.annotations # p.annotations /\ p.page \in DOMAIN v.annotations
     /\ v.annotations[p.page] = p.annotations
  THEN [v EXCEPT !.annotations = Put(v.annotations, p.page, q.annotations)]
  ELSE v

\* A handler of the page has run on p and left res; the viewer's listeners
\* run inside emit().
PageStep(p, res) ==
  /\ res.events # <<>> => CanPush
  /\ LET v == WriteThrough(V, p, res.page)
     IN Set(IF res.events = <<>> THEN v ELSE Respond(v, res.events[1]))
  /\ docPage' = res.page
  /\ emitted' = res.events
  /\ UNCHANGED <<observerVars, heapVars, renderVars, keyVars>>

\* onMouseDown(e) on p reaches the statements that start a drawing (258-267),
\* which it does whether a drawing is in progress or not.
DrawingStarted(p, e) == onMouseDown([p EXCEPT !.isDrawing = FALSE], e).page.isDrawing
\* The count of rectangles left behind after a step, kept under SpecDrag.
StraysAre(n) == strays' = IF watch = "drag" THEN n ELSE strays

Listening ==
  docPage.annotationLayerEl # Null /\ docPage.annotationLayerEl[1].listeners

\* The page comes into view: visibleChanged() and the render it awaits.
visibleChanged ==
  /\ ~docPage.hasRendered
  /\ \E r \in LayerRects :
       PageStep(docPage, Quiet(ensureRendered([docPage EXCEPT !.layerRect = r])))
  /\ StraysAre(0)

\* The browser lays the page out anew.
layoutChanged ==
  /\ docPage.hasRendered
  /\ \E r \in LayerRects \ {docPage.layerRect} :
       PageStep(docPage, Quiet([docPage EXCEPT !.layerRect = r]))
  /\ StraysAre(strays)

\* A toolbar button: setTool(tool), and the page's watcher.
setTool ==
  /\ ~docPage.readOnly
  /\ \E tool \in Tools \ {docPage.activeTool} :
       PageStep(docPage, Quiet(activeToolChanged([docPage EXCEPT !.activeTool = tool])))
  /\ StraysAre(strays)

\* The mode select: readOnly is mode === 'viewer'.
setMode ==
  /\ \E readOnly \in BOOLEAN \ {docPage.readOnly} :
       PageStep(docPage, Quiet([docPage EXCEPT !.readOnly = readOnly]))
  /\ StraysAre(strays)

\* The viewer renders: the page is given annotations[page] || [], a new
\* array when the page has none, and annotationsChanged() runs.
annotationsChanged ==
  LET p == [docPage EXCEPT !.annotations = Get(annotations, docPage.page)]
  IN /\ docPage.annotations # p.annotations \/ docPage.page \notin DOMAIN annotations
     /\ PageStep(p, Quiet(redrawHighlightsFromProps(p)))
     /\ StraysAre(IF p.annotationLayerEl = Null THEN strays ELSE 0)

\* The element of a drawing in progress stays a child of the layer when
\* onMouseDown makes a new one (262-267).
mouseDown ==
  /\ Listening
  /\ \E e \in Offsets :
       LET left == IF DrawingStarted(docPage, e) /\ docPage.attached THEN 1 ELSE 0
       IN /\ strays + left <= MaxStrays
          /\ PageStep(docPage, onMouseDown(docPage, e))
          /\ StraysAre(strays + left)

mouseMove ==
  /\ Listening
  /\ \E e \in Offsets : PageStep(docPage, onMouseMove(docPage, e))
  /\ StraysAre(strays)

mouseUp ==
  /\ Listening
  /\ PageStep(docPage, onMouseUp(docPage))
  /\ StraysAre(strays)

\* mouseup on the text element, whose listener renderTextPage adds.
textMouseUp ==
  /\ docPage.hasRendered /\ docPage.fileType = "text"
  /\ \E sel \in Selections : PageStep(docPage, handleTextMouseUp(docPage, sel))
  /\ StraysAre(strays)

NextPage ==
  \/ visibleChanged
  \/ layoutChanged
  \/ setTool
  \/ setMode
  \/ annotationsChanged
  \/ mouseDown
  \/ mouseMove
  \/ mouseUp
  \/ textMouseUp

\* ----------------------------------------------- the life cycle of a page
\* A new doc-page in a loaded viewer, its visible prop as the viewer gave it.
InitRender ==
  /\ InitPageWatching("render")
  /\ visible \in BOOLEAN
  /\ didLoad = FALSE
  /\ renders = 0
  /\ pending = 0
  /\ skipped = FALSE

\* A call of ensureRendered() with the visible prop vis, up to its await.
CallEnsureRendered(vis) ==
  LET r == ensureRenderedBegin(docPage, vis)
  IN /\ r.started => renders < MaxRenders
     /\ docPage' = r.page
     /\ renders' = IF r.started THEN renders + 1 ELSE renders
     /\ pending' = IF r.started THEN pending + 1 ELSE pending
     /\ skipped' = (skipped \/ (vis /\ docPage.hasRendered))

pageDidLoad ==
  /\ ~didLoad
  /\ didLoad' = TRUE
  /\ CallEnsureRendered(visible)
  /\ UNCHANGED <<visible, viewerVars, observerVars, heapVars, emitted, strays, keyVars>>

\* The viewer gives the prop another value; visibleChanged() runs (before
\* the component has loaded, the framework may leave the watcher out).
visibleSet ==
  /\ \E vis \in BOOLEAN \ {visible} :
       /\ visible' = vis
       /\ \/ CallEnsureRendered(vis)
          \/ ~didLoad /\ UNCHANGED <<docPage, renders, pending, skipped>>
  /\ UNCHANGED <<didLoad, viewerVars, observerVars, heapVars, emitted, strays, keyVars>>

\* The render awaited comes to its end.
renderDone ==
  /\ pending > 0
  /\ \E r \in LayerRects : docPage' = renderEnd(docPage, r)
  /\ pending' = pending - 1
  /\ UNCHANGED <<visible, didLoad, renders, skipped, viewerVars, observerVars, heapVars,
                 emitted, strays, keyVars>>

NextRender ==
  \/ pageDidLoad
  \/ visibleSet
  \/ renderDone
  \/ setTool
  \/ setMode

\* ------------------------------------------- two viewers on one origin
\* Two viewers of one origin, each with a src of its own, and an empty
\* localStorage.
InitKeys ==
  /\ InitViewer /\ watch = "keys" /\ mgrVersion = "utils"
  /\ srcs \in [Docs -> Sources]
  /\ localStorage = <<>>
  /\ loadedFrom = [d \in Docs |-> Null]

\* persist() of viewer d: setItem under its two keys.
viewerPersists ==
  \E d \in Docs :
    LET keys == {storageKey(kind, srcs[d]) : kind \in {"annotations", "comments"}}
    IN /\ localStorage' = [k \in DOMAIN localStorage \cup keys |->
                             IF k \in keys THEN d ELSE localStorage[k]]
       /\ UNCHANGED <<srcs, loadedFrom, viewerVars, observerVars, heapVars, pageVars,
                      strays, renderVars>>

\* componentDidLoad of viewer d: getItem under its key.
viewerLoads ==
  \E d \in Docs :
    LET key == storageKey("annotations", srcs[d])
    IN /\ loadedFrom' = [loadedFrom EXCEPT ![d] =
                            IF key \in DOMAIN localStorage THEN Some(localStorage[key])
                            ELSE Null]
       /\ UNCHANGED <<srcs, localStorage, viewerVars, observerVars, heapVars, pageVars,
                      strays, renderVars>>

NextKeys ==
  \/ viewerPersists
  \/ viewerLoads

Spec == Init /\ [][Next]_vars
\* The same viewer, the observers recording runs of operations and undos.
SpecRuns == InitRuns /\ [][Next]_vars
\* The same viewer, the observers recording the calls on the history manager.
SpecCalls == InitCalls /\ [][Next]_vars
\* The HistoryManager classes on the heap.
SpecHeap == InitHeap /\ [][NextHeap]_vars
\* One page of a loaded viewer.
SpecPage == InitPage /\ [][NextPage]_vars
SpecDrag == InitDrag /\ [][NextPage]_vars
SpecRender == InitRender /\ [][NextRender]_vars
SpecKeys == InitKeys /\ [][NextKeys]_vars
SpecFiles == Init /\ [][NextFiles]_vars

\* ------------------------------------------------------------------ claims
\* C1: after a run of N operations that each push the history, N undos leave
\* annotations and comments as they were before the first of those N
\* operations (for every N up to the length of the run). Under SpecRuns.
UndoRunRestoresPreState ==
  undone \in 1..Len(opPre) => Canon = opPre[Len(opPre) - undone + 1]
\* Two operations that changed the state, then two undos.
UndoRunWitness ==
  /\ phase = "ready"
  /\ Len(opPre) = 2 /\ undone = 2
  /\ opPre[1] # opPre[2]

\* C2: a redo that follows a successful undo makes annotations and comments
\* again what they were just before that undo. Under SpecCalls.
RedoRestoresStateBeforeUndo ==
  [][(lastOp = "undo:some" /\ lastOp' = "redo:some")
       => (preUndo # Null /\ Canon' = preUndo[1])]_vars
\* A redo has returned a snapshot that differs from the state the undo gave.
RedoAfterUndoWitness ==
  /\ lastOp = "redo:some"
  /\ history.past # <<>> /\ Canon # Last(history.past)

\* C3: every pushState leaves the redo stack empty, also one that follows an
\* undo; from then on a redo returns none and changes nothing, until an undo
\* succeeds. Under SpecCalls.
AfterPush == {"push", "push:cleared", "redo:none"}
PushEmptiesRedoStack ==
  [][/\ lastOp' \in AfterPush => history'.future = <<>>
     /\ lastOp \in AfterPush => lastOp' # "redo:some"
     /\ (lastOp \in AfterPush /\ lastOp' = "redo:none" /\ lastOp # "redo:none")
          => UNCHANGED viewerVars]_vars
\* A pushState has found the redo stack non-empty and emptied it.
PushAfterUndoWitness ==
  /\ lastOp = "push:cleared"
  /\ history.future = <<>> /\ Len(history.past) > 1

\* C4: undo on an empty undo stack, and redo on an empty redo stack, return
\* none and change nothing: both stacks, annotations, comments and the
\* persisted copy are as before. Under SpecCalls.
EmptyStackCallChangesNothing ==
  [][/\ (lastOp' = "undo:none" /\ lastOp # "undo:none")
          => (history.past = <<>> /\ UNCHANGED viewerVars)
     /\ (lastOp' = "redo:none" /\ lastOp # "redo:none")
          => (history.future = <<>> /\ UNCHANGED viewerVars)]_vars
\* undo has been called on the loaded viewer with nothing to undo.
UndoOnEmptyWitness ==
  /\ lastOp = "undo:none"
  /\ phase = "ready" /\ history.past = <<>> /\ history.future # <<>>

\* C5: an operation that changes annotations or comments pushes the state
\* it found before it changes it, and persists the state it leaves; one undo
\* right after it gives the state it found.
MutatingOps == {"createAnnotation", "requestComment", "save:hit", "autoTag",
                "delete:hit", "delete:miss", "import:ok"}
PushBeforeMutatePersistAfter ==
  [][lastOp' \in MutatingOps
       => /\ history'.past = Append(history.past, Canon)
          /\ storage' = persist(Canon')
          /\ CanonOf(ViewerUndo(V')) = Canon]_vars
\* An operation has changed the state; the top of the undo stack is the state before.
MutatingOpWitness ==
  /\ lastOp \in MutatingOps
  /\ history.past # <<>> /\ Last(history.past) # Canon
  /\ storage = persist(Canon)

\* C6: no object reachable from an entry of either stack is reachable from
\* an object the caller holds (what it passed, what it was handed), and a
\* write of the caller to such an object changes no stored entry. Under
\* SpecHeap.
StackEntriesNotAliased ==
  [][/\ Reach(heap', undoStack' \o redoStack') \cap Reach(heap', <<live'>> \o snap') = {}
     /\ lastCall' \in {"mutate:live", "mutate:snap"} => Stored' = Stored]_vars
\* The caller has written to the snapshot the utils manager's undo returned,
\* both stacks holding entries.
MutateReturnedWitness ==
  /\ watch = "heap" /\ mgrVersion = "utils"
  /\ lastCall = "mutate:snap"
  /\ undoStack # <<>> /\ redoStack # <<>>
  /\ Deep(heap, snap[1]) # Deep(heap, Last(undoStack))

\* C7: saveSidebarAnnotation with a selected id that comments[page] does not
\* hold leaves comments as it is and throws nothing.
SaveOfAbsentIdKeepsComments ==
  [][lastOp' = "save:miss" => (comments' = comments /\ ~threw')]_vars
\* Save was run while the sidebar selected a record that an undo had removed.
SaveOfAbsentIdWitness ==
  /\ lastOp = "save:miss"
  /\ TruthyPage(sidebarPage) /\ TruthyId(sidebarSelectedId)
  /\ sidebarPage[1] \notin DOMAIN comments

\* C8: saveSidebarAnnotation with a selected id that comments[page] does not
\* hold changes nothing of the viewer: annotations, comments, the undo stack
\* and the redo stack are as before.
SaveOfAbsentIdIsNoop ==
  [][lastOp' = "save:miss" => UNCHANGED <<annotations, comments, history>>]_vars

\* C9: saveSidebarAnnotation on a record that exists replaces that record's
\* text and tag by the drafts and nothing else: the record's other fields
\* and place, the page's other records, the other pages and annotations stay.
SaveReplacesOnlyTextAndTag ==
  [][lastOp' = "save:hit"
       => LET page == sidebarPage[1]
              list == comments[page]
              idx == findIndex(list, sidebarSelectedId[1])
          IN /\ annotations' = annotations
             /\ DOMAIN comments' = DOMAIN comments
             /\ \A p \in DOMAIN comments \ {page} : comments'[p] = comments[p]
             /\ Len(comments'[page]) = Len(list)
             /\ \A i \in (1..Len(list)) \ {idx} : comments'[page][i] = list[i]
             /\ comments'[page][idx] = [list[idx] EXCEPT !.text = sidebarDraftText,
                                                        !.tag = sidebarDraftTag]]_vars
\* The first of two records of page 1 was saved with a typed text and a
\* chosen tag, page 2 holding a record too.
SaveHitWitness ==
  /\ lastOp = "save:hit"
  /\ sidebarPage = Some(1) /\ 2 \in DOMAIN comments
  /\ Len(comments[1]) = 2 /\ comments[1][1].id = sidebarSelectedId[1]
  /\ comments[1][1].text = "fix this" /\ comments[1][1].tag = "None"
  /\ comments[1][1].kind = "note"

\* C10: handleCommentAddRequested appends one record to comments[page] (an
\* absent sequence counting as empty) with the kind, x and y asked for, text
\* "" and tag "None"; the sidebar is open on that page, the new id selected,
\* the drafts "" and "None"; annotations and the other pages stay.
RequestAppendsOneRecord ==
  [][lastOp' = "requestComment"
       => \E page \in 1..numPages :
            LET rec == Last(comments'[page])
            IN /\ page \in DOMAIN comments' /\ comments'[page] # <<>>
               /\ comments' = Put(comments, page, Append(Get(comments, page), rec))
               /\ rec.kind \in ClickKinds /\ rec.x \in ClickXs /\ rec.y \in ClickYs
               /\ rec.text = "" /\ rec.tag = "None"
               /\ sidebarOpen' /\ sidebarPage' = Some(page)
               /\ sidebarSelectedId' = Some(rec.id)
               /\ sidebarDraftText' = "" /\ sidebarDraftTag' = "None"
               /\ annotations' = annotations]_vars
\* A comment was requested on page 1, which held two records, page 2 one.
RequestWitness ==
  /\ lastOp = "requestComment"
  /\ 2 \in DOMAIN comments /\ 1 \in DOMAIN comments
  /\ Len(comments[1]) = 3 /\ Len(comments[2]) = 1
  /\ sidebarSelectedId = Some(comments[1][3].id)

\* C11: handleAnnotationCreated appends the rectangle at the end of
\* annotations[page] (an absent sequence counting as empty), also when the
\* page holds an equal rectangle; the page's other rectangles, the other
\* pages and comments stay.
CreateAppendsRect ==
  [][lastOp' = "createAnnotation"
       => /\ comments' = comments
          /\ \E page \in 1..numPages, rect \in Rects :
               annotations' = Put(annotations, page, Append(Get(annotations, page), rect))]_vars
\* The same rectangle was created twice on page 1.
CreateDuplicateWitness ==
  /\ lastOp = "createAnnotation"
  /\ 1 \in DOMAIN annotations /\ Len(annotations[1]) = 2
  /\ annotations[1][1] = annotations[1][2]

\* C12: deleteSidebarAnnotation of a record the page holds removes that
\* record, keeps the page's other records in order, keeps the other pages
\* and annotations, and leaves no id selected and the drafts "" and "None".
DeleteRemovesOneRecord ==
  [][(lastOp' = "delete:hit" /\ vars' # vars)
       => LET page == sidebarPage[1]
              list == comments[page]
              idx == findIndex(list, sidebarSelectedId[1])
          IN /\ annotations' = annotations
             /\ DOMAIN comments' = DOMAIN comments
             /\ \A p \in DOMAIN comments \ {page} : comments'[p] = comments[p]
             /\ comments'[page] = SubSeq(list, 1, idx - 1) \o SubSeq(list, idx + 1, Len(list))
             /\ sidebarSelectedId' = Null
             /\ sidebarDraftText' = "" /\ sidebarDraftTag' = "None"]_vars
\* The first of page 1's two records was deleted, page 2 holding a record.
DeleteHitWitness ==
  /\ lastOp = "delete:hit"
  /\ sidebarPage = Some(1) /\ sidebarSelectedId = Null
  /\ 1 \in DOMAIN comments /\ 2 \in DOMAIN comments
  /\ Len(comments[1]) = 1 /\ comments[1][1].id.n = 2 /\ Len(comments[2]) = 1

\* C13: a click on a comment's icon or on its entry in the sidebar list
\* changes neither annotations, comments, the two stacks nor the persisted
\* copy; the drafts become the text and tag of the record selected.
SelectTags == {"iconClicked", "selectComment"}
SelectChangesOnlyFocus ==
  [][lastOp' \in SelectTags
       => /\ UNCHANGED <<annotations, comments, history, storage>>
          /\ sidebarSelectedId' # Null /\ TruthyPage(sidebarPage')
          /\ LET c == getComment(comments, sidebarPage'[1], sidebarSelectedId'[1])
             IN c # Null => (sidebarDraftText' = c[1].text /\ sidebarDraftTag' = c[1].tag)]_vars
\* The sidebar list was used to go from a record to the imported one with a
\* text and a tag.
SelectWitness ==
  /\ lastOp = "selectComment"
  /\ sidebarDraftText = "imported" /\ sidebarDraftTag = "Question"
  /\ history.past # <<>>

\* C14: an import of a JSON object pushes the state it found and replaces
\* annotations by the file's annotations and comments by the file's comments,
\* the empty mapping standing for a key the file lacks; one undo gives the
\* state it found.
ImportReplacesWholesale ==
  [][lastOp' = "import:ok"
       => /\ history'.past = Append(history.past, Canon)
          /\ \E text \in {t \in ImportFiles : ~JSONparseThrows(t)} :
               LET data == JSONparse(text)
               IN /\ data.type = "object"
                  /\ annotations' = (IF "annotations" \in DOMAIN data.fields
                                     THEN data.fields.annotations ELSE EmptyMap)
                  /\ comments' = (IF "comments" \in DOMAIN data.fields
                                  THEN data.fields.comments ELSE EmptyMap)
          /\ CanonOf(ViewerUndo(V')) = Canon]_vars
\* A file with annotations and no comments key was imported over a state
\* that held comments.
ImportWitness ==
  /\ lastOp = "import:ok"
  /\ comments = EmptyMap /\ annotations = (1 :> <<ImportedRect>>)
  /\ Last(history.past).comments # EmptyMap

\* C15: an import that is dropped (text that is not JSON, JSON null) leaves
\* annotations, comments, the undo stack and the redo stack as they were,
\* and throws nothing. (An import of text that is not JSON is recorded as no
\* step at all.)
DroppedImportChangesNothing ==
  [][lastOp' = "import:null"
       => (UNCHANGED <<annotations, comments, history>> /\ ~threw')]_vars

\* C16: a rectangle captured on one layer box and drawn on another has
\* left = x*W2/W, top = y*H2/H, width = w*W2/W, height = h*H2/H up to the
\* rounding of the two operations on doubles (within two units in the last
\* place of the double nearest the exact value; in particular drawn on its
\* own layer box it is the pixel rectangle up to that rounding); pixel
\* {10, 20, 100, 50} on 1000x500 is stored as {0.01, 0.04, 0.1, 0.1} and
\* drawn on 800x400 as exactly {8, 16, 80, 40}.
NonZeroLayerRects == {r \in LayerRects : ~ZeroSized(r)}
\* A pointer-up that emits the rectangle drawn.
CaptureStep ==
  /\ docPage.isDrawing /\ ~docPage'.isDrawing
  /\ emitted' # <<>>
ScenarioHolds(el, from, a) ==
  (el = [left |-> Px(10), top |-> Px(20), width |-> Px(100), height |-> Px(50)]
   /\ from = [width |-> 1000, height |-> 500])
    => /\ a = [x |-> FDiv(1, 100), y |-> FDiv(4, 100), width |-> FDiv(1, 10), height |-> FDiv(1, 10)]
       /\ toPixels(a, [width |-> 800, height |-> 400])
            = [left |-> FromInt(8), top |-> FromInt(16), width |-> FromInt(80), height |-> FromInt(40)]
RenderWithinRounding ==
  [][CaptureStep
       => LET el == docPage.currentRectEl[1]
              from == docPage.layerRect
              a == emitted'[1].rect
          IN /\ \A to \in NonZeroLayerRects :
                  LET px == toPixels(a, to)
                  IN /\ WithinTwoUlps(px.left, FDiv(parseFloat(el.left) * to.width, from.width))
                     /\ WithinTwoUlps(px.top, FDiv(parseFloat(el.top) * to.height, from.height))
                     /\ WithinTwoUlps(px.width, FDiv(parseFloat(el.width) * to.width, from.width))
                     /\ WithinTwoUlps(px.height, FDiv(parseFloat(el.height) * to.height, from.height))
             /\ ScenarioHolds(el, from, a)]_vars
\* The scenario's rectangle, captured on 1000x500, is drawn on 800x400.
ScenarioRedrawnWitness ==
  /\ docPage.layerRect = [width |-> 800, height |-> 400]
  /\ docPage.annotations
       = <<[x |-> FDiv(1, 100), y |-> FDiv(4, 100), width |-> FDiv(1, 10), height |-> FDiv(1, 10)]>>
  /\ docPage.rectEls
       = <<[left |-> FromInt(8), top |-> FromInt(16), width |-> FromInt(80), height |-> FromInt(40)]>>
\* C16 as stated: the drawn values are the exact ones, and a rectangle drawn
\* on its own layer box is the pixel rectangle.
RenderIsExact ==
  [][CaptureStep
       => LET el == docPage.currentRectEl[1]
              from == docPage.layerRect
              a == emitted'[1].rect
          IN /\ \A to \in NonZeroLayerRects :
                  LET px == toPixels(a, to)
                  IN /\ px.left = FDiv(parseFloat(el.left) * to.width, from.width)
                     /\ px.top = FDiv(parseFloat(el.top) * to.height, from.height)
                     /\ px.width = FDiv(parseFloat(el.width) * to.width, from.width)
                     /\ px.height = FDiv(parseFloat(el.height) * to.height, from.height)
             /\ ScenarioHolds(el, from, a)]_vars

\* C17: on an editable page a pointer-down with the highlight tool on a pdf
\* or image page whose layer has a size starts a drawing, and nothing else
\* does; the pointer-up of a drawing ends it, removes the provisional
\* rectangle and emits one annotationCreated when the rectangle is more than
\* MinSize wide and high and the layer has a size, and nothing otherwise.
DragGesture ==
  [][/\ \A e \in Offsets :
          (Listening /\ ~docPage.readOnly /\ docPage.activeTool = "highlight"
           /\ docPage.fileType \in {"pdf", "image"} /\ ~ZeroSized(docPage.layerRect))
            => onMouseDown(docPage, e).page.isDrawing
     /\ (~docPage.isDrawing /\ docPage'.isDrawing)
          => /\ docPage.activeTool = "highlight"
             /\ docPage.fileType \in {"pdf", "image"}
             /\ ~ZeroSized(docPage.layerRect)
             /\ docPage'.currentRectEl # Null /\ docPage'.attached
             /\ emitted' = <<>>
     /\ (Listening /\ ~docPage.readOnly /\ docPage.isDrawing)
          => ~onMouseUp(docPage).page.isDrawing
     /\ (docPage.isDrawing /\ ~docPage'.isDrawing)
          => /\ docPage'.currentRectEl = Null /\ ~docPage'.attached
             /\ IF /\ parseFloat(docPage.currentRectEl[1].width) > MinSize
                   /\ parseFloat(docPage.currentRectEl[1].height) > MinSize
                   /\ ~ZeroSized(docPage.layerRect)
                THEN /\ Len(emitted') = 1
                     /\ emitted'[1].name = "annotationCreated"
                     /\ emitted'[1].page = docPage.page
                ELSE emitted' = <<>>]_vars
\* A drag on a pdf page has ended and its rectangle was emitted.
DragEmittedWitness ==
  /\ docPage.fileType = "pdf"
  /\ ~docPage.isDrawing /\ docPage.currentRectEl = Null
  /\ emitted # <<>> /\ emitted[1].name = "annotationCreated"

\* C18: the coordinates of every rectangle and of every comment position a
\* page emits lie in [0, 1], and x + width <= 1 and y + height <= 1.
InUnit(f) == NotNegative(f) /\ AtMostOne(f)
EmittedInUnitSquare ==
  \A i \in 1..Len(emitted) :
    IF emitted[i].name = "annotationCreated"
    THEN LET r == emitted[i].rect
         IN /\ InUnit(r.x) /\ InUnit(r.y) /\ InUnit(r.width) /\ InUnit(r.height)
            /\ SumAtMostOne(r.x, r.width) /\ SumAtMostOne(r.y, r.height)
    ELSE InUnit(emitted[i].x) /\ InUnit(emitted[i].y)

\* C19: a handler of the page changes annotations, comments and the two
\* stacks in no way of its own: after every step on the page they are what
\* the viewer's listener makes of the event emitted, and what they were when
\* none was.
OnlyListenersChangeCanonical ==
  [][vars' # vars
       => LET v == IF emitted' = <<>> THEN V ELSE Respond(V, emitted'[1])
          IN /\ annotations' = v.annotations
             /\ comments' = v.comments
             /\ history' = v.history]_vars
\* The page has drawn the rectangles of an array the viewer holds.
RedrawnFromViewerArrayWitness ==
  /\ docPage.page \in DOMAIN annotations
  /\ annotations[docPage.page] = docPage.annotations
  /\ docPage.annotations # <<>>
  /\ Len(docPage.rectEls) = Len(docPage.annotations)
  /\ emitted = <<>>

\* C20: after an operation that changes annotations or comments, localStorage
\* holds, under the document's two keys, the annotations and comments the
\* viewer holds.
PersistedEqualsCanonical ==
  [][Canon' # Canon
       => /\ storage'.annotations # NoItem /\ storage'.comments # NoItem
          /\ JSONparse(storage'.annotations[1]) = annotations'
          /\ JSONparse(storage'.comments[1]) = comments']_vars
\* An undo has just changed the state, and storage holds it.
PersistedWitness ==
  /\ lastOp = "history"
  /\ storage.comments # NoItem /\ JSONparse(storage.comments[1]) = comments
  /\ history.future # <<>> /\ Canon # Last(history.future)

\* C22: once the document is loaded, every page number that is a key of
\* annotations or of comments lies in 1..numPages.
PageKeysWithinDocument ==
  phase = "ready" => (DOMAIN annotations \cup DOMAIN comments) \subseteq 1..numPages

\* C24: the sidebar goes from closed to open only in handleCommentAddRequested
\* and handleCommentIconClicked, and from open to closed only in closeSidebar;
\* and an open sidebar has a page.
SidebarOpensAndCloses ==
  [][/\ (~sidebarOpen /\ sidebarOpen') => lastOp' \in {"requestComment", "iconClicked"}
     /\ (sidebarOpen /\ ~sidebarOpen') => lastOp' = "closeSidebar"
     /\ sidebarOpen' => TruthyPage(sidebarPage')]_vars
\* The sidebar was opened by a click on an icon after it had been closed, and
\* the history has moved since.
SidebarReopenedWitness ==
  /\ sidebarOpen /\ TruthyPage(sidebarPage)
  /\ lastOp = "history"
  /\ history.future # <<>>
  /\ comments # EmptyMap

\* C27: when the sidebar has a selected id, comments[sidebarPage] holds a
\* record with that id.
SelectedRecordExists ==
  TruthyId(sidebarSelectedId)
    => /\ TruthyPage(sidebarPage)
       /\ findIndex(Get(comments, sidebarPage[1]), sidebarSelectedId[1]) # 0

\* C30: an undo that no operation has preceded since the load leaves
\* annotations and comments as they are and the redo stack empty.
UndoAfterLoadIsNoop ==
  [][(lastOp = "load:done" /\ lastOp' \in {"load:done", "history"})
       => /\ Canon' = Canon
          /\ history'.future = <<>>]_vars

\* C21: no two records of comments, on one page or on two, carry the same id.
CommentIdsDistinct ==
  \A p \in DOMAIN comments, q \in DOMAIN comments :
    \A i \in 1..Len(comments[p]), j \in 1..Len(comments[q]) :
      (p # q \/ i # j) => comments[p][i].id # comments[q][j].id

\* C25: on a read-only page no handler of a pointer or text-selection event
\* does anything, and no step taken from a read-only page emits an event,
\* starts a drawing or changes annotations or comments.
ReadOnlyPageIsInert ==
  [][docPage.readOnly
       => /\ \A e \in Offsets : /\ onMouseDown(docPage, e) = Quiet(docPage)
                                /\ onMouseMove(docPage, e) = Quiet(docPage)
          /\ onMouseUp(docPage) = Quiet(docPage)
          /\ \A sel \in Selections : handleTextMouseUp(docPage, sel) = Quiet(docPage)
          /\ emitted' = <<>>
          /\ docPage'.isDrawing => docPage.isDrawing
          /\ annotations' = annotations /\ comments' = comments]_vars
\* A page that became read-only in the middle of a drag, its listeners
\* registered and the comment or highlight tool active.
ReadOnlyMidDragWitness ==
  /\ docPage.readOnly /\ Listening
  /\ docPage.isDrawing /\ docPage.currentRectEl # Null
  /\ docPage.activeTool = "highlight"
  /\ ~ZeroSized(docPage.layerRect)

\* C26: on a page that is rendered and not read-only, with the highlight
\* tool, a pdf or image and a layer that has a size, the layer listens to
\* the pointer and a pointer-down starts a drawing.
EditablePageCanDraw ==
  (/\ docPage.annotationLayerEl # Null /\ ~docPage.readOnly
   /\ docPage.activeTool = "highlight"
   /\ docPage.fileType \in {"pdf", "image"}
   /\ ~ZeroSized(docPage.layerRect))
    => /\ Listening
       /\ \A e \in Offsets : onMouseDown(docPage, e).page.isDrawing

\* C28: a drawing is in progress exactly when currentRectEl is set, and the
\* layer never holds more than one provisional rectangle.
Provisional == (IF docPage.attached THEN 1 ELSE 0) + strays
OneProvisionalWhileDrawing ==
  /\ docPage.isDrawing <=> docPage.currentRectEl # Null
  /\ Provisional <= 1

\* C29: the content of a page is rendered once at most; a render starts
\* only in a call that finds the page visible; and once the component has
\* loaded and the page is visible, one render has been started.
RendersOnceWhenVisible ==
  [][/\ renders' <= 1
     /\ renders' >= renders
     /\ renders' > renders => visible'
     /\ (didLoad' /\ visible') => renders' = 1]_vars
\* A call of ensureRendered found the page visible while the only render
\* started was still awaited, and returned.
SecondCallWhileAwaitingWitness ==
  /\ skipped /\ pending = 1 /\ renders = 1
  /\ didLoad /\ visible
  /\ docPage.annotationLayerEl = Null

\* C23: two viewers whose source locators differ have different storage
\* keys, and what a viewer reads from storage was written by a viewer of the
\* same source locator.
DocumentsDoNotCollide ==
  /\ srcs["A"] # srcs["B"]
       => \A kind \in {"annotations", "comments"} :
            storageKey(kind, srcs["A"]) # storageKey(kind, srcs["B"])
  /\ \A d \in Docs :
       loadedFrom[d] # Null => srcs[loadedFrom[d][1]] = srcs[d]

====
